---- MODULE Spec2Model ----
(***************************************************************************)
(* Web-search safety layer of SubSnap: the circuit breaker and the daily   *)
(* cost tracker of src/services/web_search_service.py and                  *)
(* src/handlers/cost_tracker.py, the admission gate that composes them and *)
(* the summarization pipeline that calls the gate and records outcomes.    *)
(*                                                                         *)
(* Money is in integer cents (0.03 is 3, 1.00 is 100).  Time is an integer *)
(* clock `now`; the calendar date is the integer `today`.                  *)
(***************************************************************************)
EXTENDS Integers, Sequences, FiniteSets

VARIABLES
    config,      \* WebSearchConfig the service was constructed with
    now,         \* datetime.now() as a clock reading
    today,       \* datetime.now().strftime('%Y-%m-%d') as a day number
    cb,          \* WebSearchCircuitBreaker.state (in memory)
    cbFile,      \* contents of web_search_circuit_state.json
    usage,       \* CostTracker.usage_data (in memory)
    usageFile,   \* contents of web_search_usage.json
    lastOp,      \* the operation that ran last
    ret,         \* what that operation returned
    cbPrev,      \* cb as it was when that operation started
    usagePrev,   \* usage as it was when that operation started
    streak,      \* record_failure calls since the breaker was fresh or reset
    issued,      \* enrichment calls sent upstream by the running process
    denied,      \* a can_search() call has returned False on the current day
    other,       \* usage_data of a second tracker over the same file
    recorded     \* record_search calls the two trackers made together

vars == <<config, now, today, cb, cbFile, usage, usageFile,
          lastOp, ret, cbPrev, usagePrev, streak, issued,
          denied, other, recorded>>

----------------------------------------------------------------------------
(* Bounds of the model *)

MaxTime == 4
MaxDay == 1
MaxFailures == 4
MaxCalls == 4
MaxIssued == 3

(* Values that stand for Python's None and for a file that does not exist *)
Null == -1
NoFile == [exists |-> FALSE]
NoStreak == -1

----------------------------------------------------------------------------
(* Configuration: core/config.py WebSearchConfig *)

DefaultCostPerSearch == 3

Thresholds == {1, 2, 3}
Timeouts == {1, 2}
DailyLimits == {1, 2, 5}
CostLimits == {10, 100}
CostsPerSearch == {3, 25}

WebSearchConfig ==
    [enabled : BOOLEAN,
     openai_client : BOOLEAN,
     daily_limit : DailyLimits,
     cost_limit_per_day : CostLimits,
     cost_per_search : CostsPerSearch,
     circuit_breaker_threshold : Thresholds,
     circuit_breaker_timeout : Timeouts]

----------------------------------------------------------------------------
(* Circuit breaker: services/web_search_service.py WebSearchCircuitBreaker *)

FreshState == [state |-> "closed", failure_count |-> 0, last_failure |-> Null]

\* a file holding a JSON record, as json.dump writes it
FileOf(record) == [exists |-> TRUE, content |-> "record", data |-> record]

\* a file that exists and cannot be opened, and one that is not JSON
UnreadableFile == [exists |-> TRUE, content |-> "unreadable"]
GarbageFile == [exists |-> TRUE, content |-> "garbage"]

save_state_raises_on_error(save_ok) == ~save_ok

\* save_state raises: never, the error of open() or json.dump is caught
\* and printed
save_state_raises(save_ok) == FALSE

\* save_state: the file after the call; it is left as it was when it
\* cannot be written
save_state(file, s, save_ok) == IF save_ok THEN FileOf(s) ELSE file

load_state_keeps_count(file, clock, timeout) ==
    IF ~file.exists THEN FreshState
    ELSE IF file.data.state = "open" /\ file.data.last_failure /= Null
              /\ clock - file.data.last_failure > timeout
         THEN [file.data EXCEPT !.state = "half_open"]
         ELSE IF file.data.state = "open" /\ file.data.last_failure = Null
              THEN FreshState
              ELSE file.data

load_state_forgets_state(file, clock, timeout) ==
    IF ~file.exists THEN FreshState
    ELSE IF file.data.state = "open" /\ file.data.last_failure /= Null
              /\ clock - file.data.last_failure > timeout
         THEN [file.data EXCEPT !.failure_count = 0]
         ELSE IF file.data.state = "open" /\ file.data.last_failure = Null
              THEN FreshState
              ELSE file.data

\* load_state: the stored record, moved to half_open with a zeroed count
\* when it is open and the recovery timeout has passed; a record that
\* cannot be read (open with no timestamp makes fromisoformat raise) and
\* a missing file both give the default record.
load_state(file, clock, timeout) ==
    IF ~file.exists THEN FreshState
    ELSE IF file.data.state = "open"
         THEN IF file.data.last_failure = Null
              THEN FreshState
              ELSE IF clock - file.data.last_failure > timeout
                   THEN [file.data EXCEPT !.state = "half_open",
                                          !.failure_count = 0]
                   ELSE file.data
         ELSE file.data

\* can_call: reads the in-memory record only
can_call(s) == s.state \in {"closed", "half_open"}

record_success_keeps_count(s) ==
    [s EXCEPT !.state = "closed", !.last_failure = Null]

\* record_success: the record after the call
record_success(s) ==
    [state |-> "closed", failure_count |-> 0, last_failure |-> Null]

record_failure_strict(s, clock, threshold) ==
    LET n == s.failure_count + 1 IN
    [state |-> IF n > threshold THEN "open" ELSE s.state,
     failure_count |-> n,
     last_failure |-> clock]

\* record_failure: the record after the call
record_failure(s, clock, threshold) ==
    LET n == s.failure_count + 1 IN
    [state |-> IF n >= threshold THEN "open" ELSE s.state,
     failure_count |-> n,
     last_failure |-> clock]

----------------------------------------------------------------------------
(* Cost tracker: handlers/cost_tracker.py CostTracker, WebSearchCostTracker *)

NoCost == -1

\* keys of the usage record; `missing` names those a loaded record lacks
UsageKeys == {"date", "searches_count", "total_cost", "searches"}

\* the fresh record load_usage_data returns for the current date
FreshUsage(day) ==
    [date |-> day, searches_count |-> 0, total_cost |-> 0, searches |-> <<>>,
     missing |-> {}]

load_usage_data_keeps_old(file, day) ==
    IF file.exists /\ file.content = "record" /\ "date" \notin file.data.missing
    THEN file.data
    ELSE FreshUsage(day)

\* load_usage_data: the stored record as it is when it carries today's
\* date, else a fresh one; a file that cannot be opened or parsed makes
\* open() or json.load raise, which is caught and gives a fresh record too
load_usage_data(file, day) ==
    IF /\ file.exists
       /\ file.content = "record"
       /\ "date" \notin file.data.missing
       /\ file.data.date = day
    THEN file.data
    ELSE FreshUsage(day)

\* save_usage_data: the file after the call.  Constants has no OUTPUT_DIR,
\* so os.makedirs(Constants.OUTPUT_DIR) raises AttributeError before the
\* file is opened; the error is caught and printed, nothing is written.
save_usage_data(file, u) == file

can_search_count_strict(u, daily_limit, cost_limit) ==
    /\ ~(u.searches_count > daily_limit)
    /\ ~(u.total_cost + DefaultCostPerSearch > cost_limit)

can_search_no_estimate(u, daily_limit, cost_limit) ==
    /\ ~(u.searches_count >= daily_limit)
    /\ ~(u.total_cost > cost_limit)

\* can_search: count below the daily limit and the cost after one more
\* search, estimated at a fixed 0.03, within the cost limit
can_search(u, daily_limit, cost_limit) ==
    /\ ~(u.searches_count >= daily_limit)
    /\ ~(u.total_cost + DefaultCostPerSearch > cost_limit)

\* can_search raises KeyError when a key it reads is not in the record
can_search_raises(u, daily_limit) ==
    \/ "searches_count" \in u.missing
    \/ /\ ~(u.searches_count >= daily_limit)
       /\ "total_cost" \in u.missing

\* record_usage raises KeyError at the first key it updates that is not
\* in the record
record_usage_raises(u) ==
    u.missing \cap {"searches_count", "total_cost", "searches"} /= {}

record_usage_skips_failures(u, cost, success) ==
    IF success
    THEN [u EXCEPT !.searches_count = @ + 1,
                   !.total_cost = @ + cost,
                   !.searches = Append(@, [cost |-> cost, success |-> success])]
    ELSE [u EXCEPT !.searches = Append(@, [cost |-> cost, success |-> success])]

record_usage_forgets_log(u, cost, success) ==
    [u EXCEPT !.searches_count = @ + 1,
              !.total_cost = @ + cost]

\* record_usage: count, cost and log after one more recorded call; the
\* updates made before a KeyError stay
record_usage(u, cost, success) ==
    IF "searches_count" \in u.missing THEN u
    ELSE IF "total_cost" \in u.missing
    THEN [u EXCEPT !.searches_count = @ + 1]
    ELSE IF "searches" \in u.missing
    THEN [u EXCEPT !.searches_count = @ + 1,
                   !.total_cost = @ + cost]
    ELSE [u EXCEPT !.searches_count = @ + 1,
                   !.total_cost = @ + cost,
                   !.searches = Append(@, [cost |-> cost, success |-> success])]

\* record_search: record_usage with 0.03 when no actual cost is given
record_search(u, actual_cost, success) ==
    record_usage(u, IF actual_cost /= NoCost THEN actual_cost
                    ELSE DefaultCostPerSearch, success)

\* what web_search_usage.json can hold when the tracker is constructed:
\* nothing, something that cannot be read, or a record, complete or not,
\* left by an earlier program (the tracker of reddit_email.py writes the
\* same file)
StoredLogs == {<<>>, <<[cost |-> 25, success |-> TRUE],
                       [cost |-> 25, success |-> FALSE]>>}

StoredRecords ==
    {[date |-> d, searches_count |-> Len(log), total_cost |-> 25 * Len(log),
      searches |-> log, missing |-> m] :
        d \in {0, 1}, log \in StoredLogs, m \in SUBSET UsageKeys}

StoredFiles ==
    {NoFile, UnreadableFile, GarbageFile} \cup {FileOf(r) : r \in StoredRecords}

----------------------------------------------------------------------------
(* Eligibility scoring: WebSearchService.calculate_web_search_score.  A    *)
(* post is described by what the scan of its fields finds.                 *)

WEB_SEARCH_SCORE_THRESHOLD == 30
MinPostScore == 15

PlatformDomains == {"reddit.com", "imgur.com", "i.redd.it"}
ExternalDomains == {"github.com"}

\* extract_external_domains: the lower-cased host without a leading
\* "www.", or nothing when the URL has no host
extract_external_domains(url) ==
    IF url.host = "" THEN <<>> ELSE <<url.host>>

\* the fields of a post that scoring looks at
ScoreScans == {"subreddit", "keywords", "score", "url", "products", "body"}

calculate_web_search_score_counts_keywords(post, enabled) ==
    IF ~enabled THEN [score |-> 0, scans |-> {}]
    ELSE LET domains == extract_external_domains(post.url)
             s1 == IF post.in_target_subreddit THEN 20 ELSE 0
             s2 == 15 * post.keywords_found
             s3 == IF post.score >= MinPostScore THEN 25 ELSE 0
             s4 == IF Len(domains) = 0 THEN 0
                   ELSE IF domains[1] \in ExternalDomains THEN 20
                   ELSE IF domains[1] \notin PlatformDomains THEN 10
                   ELSE 0
             s5 == IF post.products_found > 0 THEN 15 ELSE 0
             s6 == IF post.body_len < 100 THEN 5 ELSE 0
         IN [score |-> s1 + s2 + s3 + s4 + s5 + s6, scans |-> ScoreScans]

calculate_web_search_score_ignores_flag(post, enabled) ==
    LET domains == extract_external_domains(post.url)
        s1 == IF post.in_target_subreddit THEN 20 ELSE 0
        s2 == IF post.keywords_found > 0 THEN 15 ELSE 0
        s3 == IF post.score >= MinPostScore THEN 25 ELSE 0
        s4 == IF Len(domains) = 0 THEN 0
              ELSE IF domains[1] \in ExternalDomains THEN 20
              ELSE IF domains[1] \notin PlatformDomains THEN 10
              ELSE 0
        s5 == IF post.products_found > 0 THEN 15 ELSE 0
        s6 == IF post.body_len < 100 THEN 5 ELSE 0
    IN [score |-> s1 + s2 + s3 + s4 + s5 + s6, scans |-> ScoreScans]

\* calculate_web_search_score with the enabled flag as an argument: the
\* score and the fields it scanned
calculate_web_search_score_of(post, enabled) ==
    IF ~enabled THEN [score |-> 0, scans |-> {}]
    ELSE LET domains == extract_external_domains(post.url)
             s1 == IF post.in_target_subreddit THEN 20 ELSE 0
             s2 == IF post.keywords_found > 0 THEN 15 ELSE 0
             s3 == IF post.score >= MinPostScore THEN 25 ELSE 0
             s4 == IF Len(domains) = 0 THEN 0
                   ELSE IF domains[1] \in ExternalDomains THEN 20
                   ELSE IF domains[1] \notin PlatformDomains THEN 10
                   ELSE 0
             s5 == IF post.products_found > 0 THEN 15 ELSE 0
             s6 == IF post.body_len < 100 THEN 5 ELSE 0
         IN [score |-> s1 + s2 + s3 + s4 + s5 + s6, scans |-> ScoreScans]

calculate_web_search_score(post) ==
    calculate_web_search_score_of(post, config.enabled).score

\* should_use_web_search with the enabled flag as an argument: the
\* decision and the fields scanned to reach it
should_use_web_search_of(post, enabled) ==
    IF ~enabled THEN [value |-> FALSE, scans |-> {}]
    ELSE LET r == calculate_web_search_score_of(post, enabled)
         IN [value |-> r.score >= WEB_SEARCH_SCORE_THRESHOLD,
             scans |-> r.scans]

should_use_web_search(post) ==
    should_use_web_search_of(post, config.enabled).value

\* reddit_email.should_use_web_search decides against its own threshold
LegacyScoreThreshold == 40

\* reddit_email.calculate_web_search_score: the legacy scoring, on the
\* same configuration values
reddit_email_calculate_web_search_score(post, enabled) ==
    IF ~enabled THEN 0
    ELSE LET domains == extract_external_domains(post.url)
         IN (IF post.in_target_subreddit THEN 20 ELSE 0)
            + (IF post.keywords_found > 0 THEN 15 ELSE 0)
            + (IF post.score >= MinPostScore THEN 25 ELSE 0)
            + (IF Len(domains) = 0 THEN 0
               ELSE IF domains[1] \in ExternalDomains THEN 20
               ELSE IF domains[1] \notin PlatformDomains THEN 10
               ELSE 0)
            + (IF post.products_found > 0 THEN 15 ELSE 0)
            + (IF post.body_len < 100 THEN 5 ELSE 0)

\* reddit_email.should_use_web_search
reddit_email_should_use_web_search(post, enabled) ==
    IF ~enabled THEN FALSE
    ELSE reddit_email_calculate_web_search_score(post, enabled)
            >= LegacyScoreThreshold

\* the four checks of the gate, in the order of the code
GateChecks == <<"config", "score", "tracker", "breaker">>

DisabledReason == "Web search disabled in configuration"
CriteriaReason == "Post doesn't meet web search criteria"
LimitReason == "Daily search limits exceeded"
BreakerReason == "Circuit breaker is open due to previous failures"
AllowReason == "All checks passed"

can_perform_search_breaker_first(post, enabled, u, s, daily_limit, cost_limit) ==
    IF ~enabled
    THEN [ok |-> FALSE, raised |-> FALSE, reason |-> DisabledReason,
          checks |-> <<"config">>]
    ELSE IF ~should_use_web_search_of(post, enabled).value
    THEN [ok |-> FALSE, raised |-> FALSE, reason |-> CriteriaReason,
          checks |-> <<"config", "score">>]
    ELSE IF ~can_call(s)
    THEN [ok |-> FALSE, raised |-> FALSE, reason |-> BreakerReason,
          checks |-> <<"config", "score", "breaker">>]
    ELSE IF can_search_raises(u, daily_limit)
    THEN [ok |-> FALSE, raised |-> TRUE, reason |-> "",
          checks |-> <<"config", "score", "breaker", "tracker">>]
    ELSE IF ~can_search(u, daily_limit, cost_limit)
    THEN [ok |-> FALSE, raised |-> FALSE, reason |-> LimitReason,
          checks |-> <<"config", "score", "breaker", "tracker">>]
    ELSE [ok |-> TRUE, raised |-> FALSE, reason |-> AllowReason,
          checks |-> <<"config", "score", "breaker", "tracker">>]

can_perform_search_scores_first(post, enabled, u, s, daily_limit, cost_limit) ==
    IF ~should_use_web_search_of(post, TRUE).value
    THEN [ok |-> FALSE, raised |-> FALSE, reason |-> CriteriaReason,
          checks |-> <<"score">>]
    ELSE IF ~enabled
    THEN [ok |-> FALSE, raised |-> FALSE, reason |-> DisabledReason,
          checks |-> <<"score", "config">>]
    ELSE IF can_search_raises(u, daily_limit)
    THEN [ok |-> FALSE, raised |-> TRUE, reason |-> "",
          checks |-> <<"score", "config", "tracker">>]
    ELSE IF ~can_search(u, daily_limit, cost_limit)
    THEN [ok |-> FALSE, raised |-> FALSE, reason |-> LimitReason,
          checks |-> <<"score", "config", "tracker">>]
    ELSE IF ~can_call(s)
    THEN [ok |-> FALSE, raised |-> FALSE, reason |-> BreakerReason,
          checks |-> <<"score", "config", "tracker", "breaker">>]
    ELSE [ok |-> TRUE, raised |-> FALSE, reason |-> AllowReason,
          checks |-> <<"score", "config", "tracker", "breaker">>]

\* can_perform_search on given records: the (allowed, reason) pair, the
\* checks it made in order, and whether the tracker's check raised
can_perform_search_on(post, enabled, u, s, daily_limit, cost_limit) ==
    IF ~enabled
    THEN [ok |-> FALSE, raised |-> FALSE, reason |-> DisabledReason,
          checks |-> <<"config">>]
    ELSE IF ~should_use_web_search_of(post, enabled).value
    THEN [ok |-> FALSE, raised |-> FALSE, reason |-> CriteriaReason,
          checks |-> <<"config", "score">>]
    ELSE IF can_search_raises(u, daily_limit)
    THEN [ok |-> FALSE, raised |-> TRUE, reason |-> "",
          checks |-> <<"config", "score", "tracker">>]
    ELSE IF ~can_search(u, daily_limit, cost_limit)
    THEN [ok |-> FALSE, raised |-> FALSE, reason |-> LimitReason,
          checks |-> <<"config", "score", "tracker">>]
    ELSE IF ~can_call(s)
    THEN [ok |-> FALSE, raised |-> FALSE, reason |-> BreakerReason,
          checks |-> <<"config", "score", "tracker", "breaker">>]
    ELSE [ok |-> TRUE, raised |-> FALSE, reason |-> AllowReason,
          checks |-> <<"config", "score", "tracker", "breaker">>]

\* can_perform_search of the running service
can_perform_search(post) ==
    can_perform_search_on(post, config.enabled, usage, cb,
                          config.daily_limit, config.cost_limit_per_day)

\* posts the pipeline is run on: one with several signals, one with none
PipelinePosts ==
    {[in_target_subreddit |-> TRUE, keywords_found |-> 1, score |-> 20,
      url |-> [host |-> "github.com"], products_found |-> 0,
      body_len |-> 150],
     [in_target_subreddit |-> FALSE, keywords_found |-> 0, score |-> 3,
      url |-> [host |-> "reddit.com"], products_found |-> 0,
      body_len |-> 150]}

\* posts with every combination of what scoring can find in them
AllPosts ==
    [in_target_subreddit : BOOLEAN,
     keywords_found : {0, 1, 2},
     score : {3, 15, 20},
     url : [host : {"", "github.com", "example.com", "reddit.com"}],
     products_found : {0, 1},
     body_len : {50, 100, 150}]

\* stands for no post having been passed
NoPost ==
    [in_target_subreddit |-> FALSE, keywords_found |-> 0, score |-> 0,
     url |-> [host |-> ""], products_found |-> 0, body_len |-> 0]

----------------------------------------------------------------------------
(* The fallback chain: SummarizationService.summarize_post_content *)

\* what the upstream call and the reading of its response can do
Outcomes == {"search_used", "search_not_used", "call_raises", "extract_raises"}

\* how a summarization stage can end: a summary, None, or an exception
\* that leaves the stage
StageOutcomes == {"result", "none", "raised"}

NoGate == [ok |-> FALSE, raised |-> FALSE, reason |-> "", checks |-> <<>>]

\* the body of summarize_post_content_with_web_search(post) for a given
\* answer of the gate: how the stage ends, whether the upstream call was
\* sent, and the records and files it leaves
web_search_stage_on(post, outcome, save_ok, gate) ==
    LET threshold == config.circuit_breaker_threshold
        debit == outcome = "search_used"
        debitRaises == debit /\ record_usage_raises(usage)
        fails == outcome \in {"call_raises", "extract_raises"} \/ debitRaises
        cb1 == IF outcome = "call_raises"
               THEN record_failure(cb, now, threshold)
               ELSE IF fails
               THEN record_failure(record_success(cb), now, threshold)
               ELSE record_success(cb)
        u1 == IF debit
              THEN record_search(usage, config.cost_per_search, TRUE)
              ELSE usage
        idle == [result |-> "none", called |-> FALSE, gate |-> gate,
                 breaker_calls |-> <<>>,
                 cb |-> cb, cbFile |-> cbFile,
                 usage |-> usage, usageFile |-> usageFile, streak |-> streak]
    IN IF ~config.openai_client THEN [idle EXCEPT !.gate = NoGate]
       ELSE IF gate.raised THEN [idle EXCEPT !.result = "raised"]
       ELSE IF ~gate.ok THEN idle
       ELSE [result |-> IF fails THEN "none" ELSE "result",
             called |-> TRUE,
             gate |-> gate,
             breaker_calls |->
                 IF outcome = "call_raises" THEN <<"record_failure">>
                 ELSE IF fails THEN <<"record_success", "record_failure">>
                 ELSE <<"record_success">>,
             cb |-> cb1,
             cbFile |-> save_state(cbFile, cb1, save_ok),
             usage |-> u1,
             usageFile |-> IF debit /\ ~debitRaises
                           THEN save_usage_data(usageFile, u1)
                           ELSE usageFile,
             streak |-> IF outcome = "call_raises"
                        THEN IF streak = NoStreak THEN NoStreak ELSE streak + 1
                        ELSE IF fails THEN 1 ELSE 0]

web_search_stage_ungated(post, outcome, save_ok) ==
    web_search_stage_on(post, outcome, save_ok,
                        [ok |-> TRUE, raised |-> FALSE,
                         reason |-> AllowReason, checks |-> <<>>])

\* summarize_post_content_with_web_search(post): the gate is asked, then
\* the call is made if it allows
web_search_stage(post, outcome, save_ok) ==
    web_search_stage_on(post, outcome, save_ok, can_perform_search(post))

summarize_post_content_unguarded(enabled, ws, mm, txt) ==
    LET web == IF enabled THEN <<"web_search">> ELSE <<>>
        wso == IF enabled THEN <<ws>> ELSE <<>>
    IN IF enabled /\ ws = "raised"
       THEN [ok |-> FALSE, raised |-> TRUE, stages |-> web, outcomes |-> wso]
       ELSE IF enabled /\ ws = "result"
       THEN [ok |-> TRUE, raised |-> FALSE, stages |-> web, outcomes |-> wso]
       ELSE IF mm = "result"
       THEN [ok |-> TRUE, raised |-> FALSE,
             stages |-> web \o <<"multimodal">>, outcomes |-> wso \o <<mm>>]
       ELSE [ok |-> txt = "result", raised |-> FALSE,
             stages |-> web \o <<"multimodal", "text_only">>,
             outcomes |-> wso \o <<mm, txt>>]

\* summarize_post_content: the stages tried in order and how each ended;
\* the first summary is returned, an exception of a stage is caught, and
\* None is returned when every stage failed
summarize_post_content(enabled, ws, mm, txt) ==
    LET web == IF enabled THEN <<"web_search">> ELSE <<>>
        wso == IF enabled THEN <<ws>> ELSE <<>>
    IN IF enabled /\ ws = "result"
       THEN [ok |-> TRUE, raised |-> FALSE, stages |-> web, outcomes |-> wso]
       ELSE IF mm = "result"
       THEN [ok |-> TRUE, raised |-> FALSE,
             stages |-> web \o <<"multimodal">>, outcomes |-> wso \o <<mm>>]
       ELSE [ok |-> txt = "result", raised |-> FALSE,
             stages |-> web \o <<"multimodal", "text_only">>,
             outcomes |-> wso \o <<mm, txt>>]

----------------------------------------------------------------------------
(* Operations *)

NoResult ==
    [ok |-> FALSE, reason |-> "", called |-> FALSE, raised |-> FALSE,
     saved |-> FALSE, value |-> 0, checks |-> <<>>, scans |-> {},
     stages |-> <<>>, outcomes |-> <<>>, breaker_calls |-> <<>>,
     repeat |-> FALSE, post |-> NoPost]

Returned(ok) == [NoResult EXCEPT !.ok = ok]

\* every operation notes what ran and the records it started from
Noted(op, result) ==
    /\ lastOp' = op
    /\ ret' = result
    /\ cbPrev' = cb
    /\ usagePrev' = usage

\* an operation of the one service leaves the second tracker alone and
\* is no direct can_search() call
Note(op, result) ==
    /\ Noted(op, result)
    /\ UNCHANGED <<denied, other, recorded>>

\* WebSearchService.__init__ in a new process: both records are loaded
\* from their files
Restart ==
    /\ cb' = load_state(cbFile, now, config.circuit_breaker_timeout)
    /\ usage' = load_usage_data(usageFile, today)
    /\ streak' = IF cb' = cb THEN streak ELSE NoStreak
    /\ issued' = 0
    /\ Note("restart", NoResult)
    /\ UNCHANGED <<config, now, today, cbFile, usageFile>>

\* the clock advances
Tick ==
    /\ now < MaxTime
    /\ now' = now + 1
    /\ Note("tick", NoResult)
    /\ UNCHANGED <<config, today, cb, cbFile, usage, usageFile, streak, issued>>

\* the calendar date changes
NextDay ==
    /\ today < MaxDay
    /\ today' = today + 1
    /\ denied' = FALSE
    /\ Noted("next_day", NoResult)
    /\ UNCHANGED <<other, recorded>>
    /\ UNCHANGED <<config, now, cb, cbFile, usage, usageFile, streak, issued>>

\* WebSearchCircuitBreaker.can_call()
BreakerCanCall ==
    /\ Note("can_call", Returned(can_call(cb)))
    /\ UNCHANGED <<config, now, today, cb, cbFile, usage, usageFile,
                   streak, issued>>

\* WebSearchCircuitBreaker.record_success(); save_state may fail to write
BreakerRecordSuccess(save_ok) ==
    /\ cb' = record_success(cb)
    /\ cbFile' = save_state(cbFile, cb', save_ok)
    /\ streak' = 0
    /\ Note("record_success",
            [NoResult EXCEPT !.saved = save_ok,
                             !.raised = save_state_raises(save_ok)])
    /\ UNCHANGED <<config, now, today, usage, usageFile, issued>>

\* WebSearchCircuitBreaker.record_failure(); save_state may fail to write
BreakerRecordFailure(save_ok) ==
    /\ cb.failure_count < MaxFailures
    /\ cb' = record_failure(cb, now, config.circuit_breaker_threshold)
    /\ cbFile' = save_state(cbFile, cb', save_ok)
    /\ streak' = IF streak = NoStreak THEN NoStreak ELSE streak + 1
    /\ Note("record_failure",
            [NoResult EXCEPT !.saved = save_ok,
                             !.raised = save_state_raises(save_ok)])
    /\ UNCHANGED <<config, now, today, usage, usageFile, issued>>

\* WebSearchCostTracker.can_search()
TrackerCanSearch ==
    /\ Noted("can_search",
             [NoResult EXCEPT
                 !.raised = can_search_raises(usage, config.daily_limit),
                 !.ok = /\ ~can_search_raises(usage, config.daily_limit)
                        /\ can_search(usage, config.daily_limit,
                                      config.cost_limit_per_day)])
    /\ denied' = (denied \/ (~ret'.ok /\ ~ret'.raised))
    /\ UNCHANGED <<other, recorded>>
    /\ UNCHANGED <<config, now, today, cb, cbFile, usage, usageFile,
                   streak, issued>>

\* costs a caller passes to record_search
ActualCosts == {NoCost, 0, 25}

\* WebSearchCostTracker.record_search(title, actual_cost, success),
\* save_usage_data included; a KeyError leaves before the save
TrackerRecordSearch(actual_cost, success) ==
    /\ usage.searches_count < MaxCalls
    /\ usage' = record_search(usage, actual_cost, success)
    /\ usageFile' = IF record_usage_raises(usage) THEN usageFile
                    ELSE save_usage_data(usageFile, usage')
    /\ Note("record_search",
            [NoResult EXCEPT
                !.raised = record_usage_raises(usage),
                !.ok = success,
                !.value = IF actual_cost /= NoCost THEN actual_cost
                          ELSE DefaultCostPerSearch])
    /\ UNCHANGED <<config, now, today, cb, cbFile, streak, issued>>

\* WebSearchService.calculate_web_search_score(post)
CalculateWebSearchScore(post) ==
    LET r == calculate_web_search_score_of(post, config.enabled) IN
    /\ Note("calculate_web_search_score",
            [NoResult EXCEPT !.value = r.score, !.scans = r.scans,
                             !.post = post])
    /\ UNCHANGED <<config, now, today, cb, cbFile, usage, usageFile,
                   streak, issued>>

\* WebSearchService.should_use_web_search(post)
ShouldUseWebSearch(post) ==
    LET r == should_use_web_search_of(post, config.enabled) IN
    /\ Note("should_use_web_search",
            [NoResult EXCEPT !.ok = r.value, !.scans = r.scans,
                             !.post = post])
    /\ UNCHANGED <<config, now, today, cb, cbFile, usage, usageFile,
                   streak, issued>>

CanPerformSearch_debits(post) ==
    LET g == can_perform_search(post) IN
    /\ usage.searches_count < MaxCalls
    /\ usage' = IF g.ok THEN record_search(usage, NoCost, TRUE) ELSE usage
    /\ Note("can_perform_search",
            [NoResult EXCEPT !.ok = g.ok, !.raised = g.raised,
                             !.reason = g.reason, !.checks = g.checks,
                             !.repeat = (/\ lastOp = "can_perform_search"
                                         /\ ret.post = post),
                             !.post = post])
    /\ UNCHANGED <<config, now, today, cb, cbFile, usageFile,
                   streak, issued>>

\* WebSearchService.can_perform_search(post)
CanPerformSearch(post) ==
    LET g == can_perform_search(post) IN
    /\ Note("can_perform_search",
            [NoResult EXCEPT !.ok = g.ok, !.raised = g.raised,
                             !.reason = g.reason, !.checks = g.checks,
                             !.repeat = (/\ lastOp = "can_perform_search"
                                         /\ ret.post = post),
                             !.post = post])
    /\ UNCHANGED <<config, now, today, cb, cbFile, usage, usageFile,
                   streak, issued>>

\* a second service is constructed over the same files, as
\* legacy_compat does for every summarize call beside its module-level one
ConstructOther ==
    /\ other' = load_usage_data(usageFile, today)
    /\ Noted("construct_other", NoResult)
    /\ UNCHANGED <<config, now, today, cb, cbFile, usage, usageFile,
                   streak, issued, denied, recorded>>

\* record_search on one of the two trackers that share the usage file
SharedRecordSearch(i) ==
    /\ recorded < MaxCalls
    /\ recorded' = recorded + 1
    /\ IF i = 1
       THEN /\ usage' = record_search(usage, NoCost, TRUE)
            /\ usageFile' = save_usage_data(usageFile, usage')
            /\ other' = other
       ELSE /\ other' = record_search(other, NoCost, TRUE)
            /\ usageFile' = save_usage_data(usageFile, other')
            /\ usage' = usage
    /\ Noted("shared_record_search", [NoResult EXCEPT !.value = i])
    /\ UNCHANGED <<config, now, today, cb, cbFile, streak, issued, denied>>

\* the records and files a run of the web search stage leaves
WebSearchStageEffect(r) ==
    /\ r.called =>
          /\ issued < MaxIssued
          /\ usage.searches_count < MaxCalls
          /\ cb.failure_count < MaxFailures
    /\ issued' = IF r.called THEN issued + 1 ELSE issued
    /\ cb' = r.cb
    /\ cbFile' = r.cbFile
    /\ usage' = r.usage
    /\ usageFile' = r.usageFile
    /\ streak' = r.streak
    /\ UNCHANGED <<config, now, today>>

\* SummarizationService.summarize_post_content_with_web_search(post)
SummarizeWithWebSearch(post, outcome, save_ok) ==
    LET r == web_search_stage(post, outcome, save_ok) IN
    /\ WebSearchStageEffect(r)
    /\ Note("summarize",
            [NoResult EXCEPT !.ok = (r.result = "result"),
                             !.raised = (r.result = "raised"),
                             !.reason = r.gate.reason,
                             !.checks = r.gate.checks,
                             !.called = r.called,
                             !.breaker_calls = r.breaker_calls,
                             !.saved = r.called /\ save_ok,
                             !.post = post])

\* SummarizationService.summarize_post_content(post): the web search
\* stage when the feature is enabled, then the fallbacks
SummarizePostContent(post, outcome, save_ok, mm, txt) ==
    LET r == web_search_stage(post, outcome, save_ok)
        chain == summarize_post_content(config.enabled, r.result, mm, txt)
    IN
    /\ IF config.enabled
       THEN WebSearchStageEffect(r)
       ELSE UNCHANGED <<config, now, today, cb, cbFile, usage, usageFile,
                        streak, issued>>
    /\ Note("summarize_post_content",
            [NoResult EXCEPT !.ok = chain.ok,
                             !.raised = chain.raised,
                             !.stages = chain.stages,
                             !.outcomes = chain.outcomes,
                             !.reason = IF config.enabled
                                        THEN r.gate.reason ELSE "",
                             !.checks = IF config.enabled
                                        THEN r.gate.checks ELSE <<>>,
                             !.called = config.enabled /\ r.called,
                             !.saved = config.enabled /\ r.called /\ save_ok,
                             !.post = post])

----------------------------------------------------------------------------
(* Specifications *)

DefaultConfig ==
    [enabled |-> TRUE, openai_client |-> TRUE, daily_limit |-> 5,
     cost_limit_per_day |-> 100, cost_per_search |-> 25,
     circuit_breaker_threshold |-> 3, circuit_breaker_timeout |-> 2]

\* the state after the service was constructed under one of the configs
\* with one of the files in place of web_search_usage.json
InitWith(configs, files) ==
    /\ config \in configs
    /\ now = 0
    /\ today = 0
    /\ cb = FreshState
    /\ cbFile = NoFile
    /\ usageFile \in files
    /\ usage = load_usage_data(usageFile, 0)
    /\ lastOp = "init"
    /\ ret = NoResult
    /\ cbPrev = FreshState
    /\ usagePrev = usage
    /\ streak = 0
    /\ issued = 0
    /\ denied = FALSE
    /\ other = usage
    /\ recorded = 0

\* the breaker alone, under every threshold and timeout
BreakerConfigs ==
    {c \in WebSearchConfig :
        /\ c.enabled /\ c.openai_client
        /\ c.daily_limit = 5 /\ c.cost_limit_per_day = 100
        /\ c.cost_per_search = 25}

InitBreaker == InitWith(BreakerConfigs, {NoFile})

NextBreaker ==
    \/ Restart
    \/ Tick
    \/ BreakerCanCall
    \/ \E save_ok \in BOOLEAN : BreakerRecordSuccess(save_ok)
    \/ \E save_ok \in BOOLEAN : BreakerRecordFailure(save_ok)

SpecBreaker == InitBreaker /\ [][NextBreaker]_vars

\* the tracker alone, under every limit and cost
TrackerConfigs ==
    {c \in WebSearchConfig :
        /\ c.enabled /\ c.openai_client
        /\ c.circuit_breaker_threshold = 3 /\ c.circuit_breaker_timeout = 2}

InitTracker == InitWith(TrackerConfigs, {NoFile})

NextTracker ==
    \/ Restart
    \/ NextDay
    \/ TrackerCanSearch
    \/ \E actual_cost \in ActualCosts, success \in BOOLEAN :
          TrackerRecordSearch(actual_cost, success)

SpecTracker == InitTracker /\ [][NextTracker]_vars

\* the tracker constructed over every content of the usage file
StoreConfigs ==
    {c \in TrackerConfigs :
        /\ c.daily_limit \in {2, 5}
        /\ c.cost_limit_per_day = 100
        /\ c.cost_per_search = 25}

InitStore == InitWith(StoreConfigs, StoredFiles)

NextStore ==
    \/ Restart
    \/ NextDay
    \/ TrackerCanSearch
    \/ \E success \in BOOLEAN : TrackerRecordSearch(NoCost, success)

SpecStore == InitStore /\ [][NextStore]_vars

\* the gate asked about posts while outcomes and searches are recorded
GateConfigs ==
    {c \in WebSearchConfig :
        /\ c.openai_client
        /\ c.daily_limit \in {1, 2}
        /\ c.cost_limit_per_day = 100
        /\ c.cost_per_search = 25
        /\ c.circuit_breaker_threshold \in {1, 2}
        /\ c.circuit_breaker_timeout = 1}

InitGate == InitWith(GateConfigs, {NoFile})

NextGate ==
    \/ \E post \in PipelinePosts : CanPerformSearch(post)
    \/ BreakerRecordSuccess(TRUE)
    \/ BreakerRecordFailure(TRUE)
    \/ TrackerRecordSearch(NoCost, TRUE)

SpecGate == InitGate /\ [][NextGate]_vars

\* scoring applied to every post, with the feature enabled and disabled
ScoreConfigs ==
    {c \in WebSearchConfig : c = [DefaultConfig EXCEPT !.enabled = c.enabled]}

InitScore == InitWith(ScoreConfigs, {NoFile})

NextScore ==
    \/ \E post \in AllPosts : CalculateWebSearchScore(post)
    \/ \E post \in AllPosts : ShouldUseWebSearch(post)

SpecScore == InitScore /\ [][NextScore]_vars

\* two trackers over one usage file record searches in any order
SharedConfigs == StoreConfigs

InitShared == InitWith(SharedConfigs, {NoFile})

NextShared ==
    \/ Restart
    \/ ConstructOther
    \/ \E i \in {1, 2} : SharedRecordSearch(i)

SpecShared == InitShared /\ [][NextShared]_vars

\* the digest run: posts go through the pipeline one after the other
\* while the clock and the date advance and the process may be restarted
PipelineConfigs ==
    {c \in WebSearchConfig :
        /\ c.daily_limit \in {2, 5}
        /\ c.cost_limit_per_day = 100
        /\ c.cost_per_search = 25
        /\ c.circuit_breaker_threshold \in {1, 2}
        /\ c.circuit_breaker_timeout = 1}

Init == InitWith(PipelineConfigs, {NoFile})

Next ==
    \/ Restart
    \/ Tick
    \/ NextDay
    \/ \E post \in PipelinePosts, outcome \in Outcomes :
          SummarizeWithWebSearch(post, outcome, TRUE)

Spec == Init /\ [][Next]_vars

\* the fallback chain run on posts, with the feature enabled and disabled
ChainConfigs ==
    {c \in WebSearchConfig :
        /\ c.openai_client
        /\ c.daily_limit = 2
        /\ c.cost_limit_per_day = 100
        /\ c.cost_per_search = 25
        /\ c.circuit_breaker_threshold = 2
        /\ c.circuit_breaker_timeout = 1}

\* the usage file a run can start over: none, or a record of today that
\* lacks its cost
ChainFiles ==
    {NoFile, FileOf([FreshUsage(0) EXCEPT !.missing = {"total_cost"}])}

InitChain == InitWith(ChainConfigs, ChainFiles)

NextChain ==
    \/ Restart
    \/ \E post \in PipelinePosts, outcome \in Outcomes, save_ok \in BOOLEAN,
          mm \in StageOutcomes, txt \in StageOutcomes :
          SummarizePostContent(post, outcome, save_ok, mm, txt)

SpecChain == InitChain /\ [][NextChain]_vars
----------------------------------------------------------------------------
(* Properties of the circuit breaker, checked under SpecBreaker *)

Threshold == config.circuit_breaker_threshold
Timeout == config.circuit_breaker_timeout

\* C1: counting record_failure calls from a fresh or reset breaker with no
\* success in between, the breaker is Closed and admits calls while fewer
\* than threshold failures were recorded, and is Open and refuses calls
\* from the threshold-th failure on.
C1_OpensExactlyAtThreshold ==
    streak /= NoStreak =>
        IF streak < Threshold
        THEN cb.state = "closed" /\ can_call(cb)
        ELSE cb.state = "open" /\ ~can_call(cb)

C1_Witness ==
    /\ lastOp = "record_failure"
    /\ Threshold = 3
    /\ streak = 3
    /\ cbPrev.state = "closed"
    /\ cb.state = "open"

\* C2: a can_call() on an Open breaker returns true and leaves the breaker
\* HalfOpen exactly when the time since last_failure is at least the
\* recovery timeout.
C2_AdmissionCheckRecovers ==
    (lastOp = "can_call" /\ cbPrev.state = "open") =>
        ((ret.ok /\ cb.state = "half_open")
            <=> now - cbPrev.last_failure >= Timeout)

\* C3: after record_success() the record is Closed, failure_count 0,
\* last_failure null, whatever it was before.
C3_SuccessResets ==
    lastOp = "record_success" =>
        /\ cb.state = "closed"
        /\ cb.failure_count = 0
        /\ cb.last_failure = Null

C3_Witness ==
    /\ lastOp = "record_success"
    /\ cbPrev.state = "open"
    /\ cbPrev.failure_count >= Threshold
    /\ cb.state = "closed"

\* C4 as stated: a single record_failure() on a HalfOpen breaker returns it
\* to Open with can_call() false.
C4_SingleFailureReopens ==
    (lastOp = "record_failure" /\ cbPrev.state = "half_open") =>
        (cb.state = "open" /\ ~can_call(cb))

\* C4 as amended: a HalfOpen breaker holds fewer than threshold failures
\* and admits calls; a record_failure() on it adds one failure and returns
\* it to Open only when that brings failure_count to the threshold, else
\* it stays HalfOpen and keeps admitting calls.
C4_HalfOpenReopensAtThreshold ==
    /\ cb.state = "half_open" =>
          (cb.failure_count < Threshold /\ can_call(cb))
    /\ (lastOp = "record_failure" /\ cbPrev.state = "half_open") =>
          /\ cb.failure_count = cbPrev.failure_count + 1
          /\ cb.state = IF cb.failure_count >= Threshold
                        THEN "open" ELSE "half_open"

C4_Witness ==
    /\ lastOp = "record_failure"
    /\ cbPrev.state = "half_open"
    /\ cb.state = "half_open"
    /\ cb.failure_count = 1
    /\ can_call(cb)

\* C5: whenever the record, in memory or stored, is Open, its
\* failure_count is at least the threshold.
C5_OpenImpliesThreshold ==
    /\ cb.state = "open" => cb.failure_count >= Threshold
    /\ (cbFile.exists /\ cbFile.data.state = "open") =>
          cbFile.data.failure_count >= Threshold

C5_Witness ==
    /\ lastOp = "restart"
    /\ cb.state = "open"
    /\ cb.failure_count > Threshold
    /\ now > cb.last_failure

----------------------------------------------------------------------------
(* Properties of the cost tracker, checked under SpecTracker *)

\* the scenario daily_limit=5, cost_limit=1.00, cost_per_call=0.25
Scenario ==
    /\ config.daily_limit = 5
    /\ config.cost_limit_per_day = 100
    /\ config.cost_per_search = 25

\* every recorded call was a successful one of 0.25
AllQuarterCalls ==
    \A i \in 1..Len(usage.searches) :
        usage.searches[i] = [cost |-> 25, success |-> TRUE]

\* C6: can_search() returns false whenever searches_count has reached the
\* daily limit, whatever total_cost is.
C6_CountLimitBlocks ==
    (lastOp = "can_search" /\ usage.searches_count >= config.daily_limit)
        => ~ret.ok

C6_Witness ==
    /\ lastOp = "can_search"
    /\ usage.searches_count = config.daily_limit
    /\ usage.total_cost = 0
    /\ ~ret.ok

\* C7: can_search() returns false whenever total_cost plus the configured
\* cost per search exceeds the daily cost limit.
C7_ConfiguredCostBlocks ==
    (lastOp = "can_search"
        /\ usage.total_cost + config.cost_per_search
              > config.cost_limit_per_day)
        => ~ret.ok

\* C8 as stated: in the scenario, after 4 successful calls of 0.25 on a
\* fresh record, can_search() is true.
C8_FourCallsStillAllowed ==
    (lastOp = "can_search" /\ Scenario /\ AllQuarterCalls
        /\ usage.searches_count = 4)
        => ret.ok

\* C8 as amended: in the scenario, after 4 successful calls of 0.25 on a
\* fresh record can_search() is false, the cost of one more search
\* exceeding 1.00; after 3 such calls it is true.
C8_FourCallsExhaustBudget ==
    (lastOp = "can_search" /\ Scenario /\ AllQuarterCalls) =>
        /\ usage.searches_count = 4 => ~ret.ok
        /\ usage.searches_count = 3 => ret.ok

C8_Witness ==
    /\ lastOp = "can_search"
    /\ Scenario
    /\ AllQuarterCalls
    /\ usage.searches_count = 4
    /\ usage.total_cost = 100
    /\ usage.date = today
    /\ ~ret.ok

\* C10: a can_search() made after the date has changed is decided on a
\* zeroed record for the new date.
C10_RollsOverBeforeDeciding ==
    (lastOp = "can_search" /\ usagePrev.date /= today) =>
        ret.ok = can_search(FreshUsage(today), config.daily_limit,
                            config.cost_limit_per_day)

----------------------------------------------------------------------------
(* Properties of the pipeline, checked under Spec *)

\* C9: every enrichment call that was sent has raised searches_count by
\* at least one by the time summarization returns, whatever the outcome.
C9_EveryAttemptDebited ==
    (lastOp = "summarize" /\ ret.called) =>
        usage.searches_count >= usagePrev.searches_count + 1


----------------------------------------------------------------------------
(* The usage store *)

StoredRecordWithDate ==
    /\ usageFile.exists
    /\ usageFile.content = "record"
    /\ "date" \notin usageFile.data.missing

\* C11: a tracker constructed over a stored record whose date is not
\* today holds a fresh record dated today, with count 0, cost 0 and
\* an empty log, whatever the stored counters were; over a stored
\* record dated today it holds that record as it was stored
C11_LoadRollsOver ==
    (lastOp \in {"init", "restart"} /\ StoredRecordWithDate) =>
        IF usageFile.data.date = today
        THEN usage = usageFile.data
        ELSE /\ usage.date = today
             /\ usage.searches_count = 0
             /\ usage.total_cost = 0
             /\ usage.searches = <<>>
             /\ usage.missing = {}

C11_Witness ==
    /\ lastOp = "restart"
    /\ StoredRecordWithDate
    /\ usageFile.data.date /= today
    /\ usageFile.data.searches_count = 2
    /\ usageFile.data.missing = {}
    /\ usage = FreshUsage(today)

\* C12: after record_search returned, a tracker constructed on the same
\* date over the same file loads the record that the recording tracker
\* holds in memory
C12_RecordIsPersisted ==
    (lastOp = "record_search" /\ ~ret.raised /\ usage.date = today) =>
        load_usage_data(usageFile, today) = usage

\* C13: record_search adds exactly one to the count and the given cost
\* to the total, whatever the success flag is
C13_AlwaysCharged ==
    lastOp = "record_search" =>
        /\ usage.searches_count = usagePrev.searches_count + 1
        /\ usage.total_cost = usagePrev.total_cost + ret.value

C13_Witness ==
    /\ lastOp = "record_search"
    /\ ~ret.ok
    /\ ret.value = 25
    /\ usage.searches_count = usagePrev.searches_count + 1
    /\ usage.total_cost = usagePrev.total_cost + 25

\* C14: from a fresh record on, under record_search, can_search and the
\* rollover at construction, the count equals the length of the log
C14_CountIsLogLength ==
    usage.searches_count = Len(usage.searches)

C14_Witness ==
    /\ lastOp = "record_search"
    /\ usage.searches_count = 3
    /\ Len(usage.searches) = 3


----------------------------------------------------------------------------
(* The admission gate *)

TrackerAllows ==
    can_search(usage, config.daily_limit, config.cost_limit_per_day)

ChecksMade == {ret.checks[i] : i \in 1..Len(ret.checks)}

\* C15: can_perform_search makes its checks in the order configuration,
\* score, tracker, breaker and returns the reason of the first one that
\* fails; it allows, with "All checks passed", exactly when the feature
\* is enabled, the post qualifies, the tracker allows and the breaker
\* allows; the four reasons of denial are pairwise distinct
C15_OrderedChecks ==
    lastOp = "can_perform_search" =>
        /\ ret.checks = SubSeq(GateChecks, 1, Len(ret.checks))
        /\ ret.reason =
              IF ~config.enabled THEN DisabledReason
              ELSE IF ~should_use_web_search(ret.post) THEN CriteriaReason
              ELSE IF ~TrackerAllows THEN LimitReason
              ELSE IF ~can_call(cb) THEN BreakerReason
              ELSE AllowReason
        /\ ret.ok <=> /\ config.enabled
                      /\ should_use_web_search(ret.post)
                      /\ TrackerAllows
                      /\ can_call(cb)
        /\ ret.ok <=> ret.reason = AllowReason
        /\ Cardinality({DisabledReason, CriteriaReason, LimitReason,
                        BreakerReason, AllowReason}) = 5

C15_Witness ==
    /\ lastOp = "can_perform_search"
    /\ config.enabled
    /\ should_use_web_search(ret.post)
    /\ ~TrackerAllows
    /\ ~can_call(cb)
    /\ ret.reason = LimitReason
    /\ ret.checks = <<"config", "score", "tracker">>

\* C16: with the feature enabled and the score of the post below the
\* threshold, can_perform_search denies for the criteria and asks neither
\* the tracker nor the breaker; with the feature disabled it asks
\* neither of them and scores nothing
C16_CheapChecksFirst ==
    lastOp = "can_perform_search" =>
        /\ ~config.enabled =>
              /\ ~ret.ok
              /\ ChecksMade \cap {"score", "tracker", "breaker"} = {}
        /\ (config.enabled /\ ~should_use_web_search(ret.post)) =>
              /\ ~ret.ok
              /\ ret.reason = CriteriaReason
              /\ ChecksMade \cap {"tracker", "breaker"} = {}

C16_Witness ==
    /\ lastOp = "can_perform_search"
    /\ config.enabled
    /\ ~should_use_web_search(ret.post)
    /\ ~TrackerAllows
    /\ ~can_call(cb)
    /\ ret.reason = CriteriaReason
    /\ ret.checks = <<"config", "score">>

----------------------------------------------------------------------------
(* The fallback chain and failures of the stores *)

ChainOrder ==
    (IF config.enabled THEN <<"web_search">> ELSE <<>>)
        \o <<"multimodal", "text_only">>

\* C17: summarize_post_content never raises: whatever the gate answers
\* and however each stage ends, the stages are tried in the order web
\* search, multimodal, text only until one gives a summary, and the
\* result is that summary, or None when no stage gave one
C17_ChainNeverRaises ==
    lastOp = "summarize_post_content" =>
        LET n == Len(ret.stages) IN
        /\ ~ret.raised
        /\ n >= 1
        /\ Len(ret.outcomes) = n
        /\ ret.stages = SubSeq(ChainOrder, 1, n)
        /\ \A i \in 1..(n - 1) : ret.outcomes[i] /= "result"
        /\ ret.outcomes[n] /= "result" => n = Len(ChainOrder)
        /\ ret.ok <=> ret.outcomes[n] = "result"

C17_Witness ==
    /\ lastOp = "summarize_post_content"
    /\ config.enabled
    /\ ret.stages = <<"web_search", "multimodal", "text_only">>
    /\ ret.outcomes = <<"raised", "raised", "result">>
    /\ ret.ok
    /\ ~ret.raised

BrokenStore ==
    \/ ~usageFile.exists
    \/ usageFile.content /= "record"
    \/ usageFile.data.missing \cap {"searches_count", "total_cost", "searches"}
          /= {}

\* C18: over a usage file that is absent, unreadable, not parsable or
\* lacks the count, the cost or the log, the constructed tracker holds a
\* fresh record for today, and can_search and record_search never raise
C18_BrokenStoreIsFresh ==
    /\ (lastOp \in {"init", "restart"} /\ BrokenStore) =>
          usage = FreshUsage(today)
    /\ lastOp \in {"can_search", "record_search"} => ~ret.raised

\* C19: when the breaker's record cannot be saved, record_success and
\* record_failure do not raise and the record in memory still changes:
\* a success closes the breaker and zeroes the count, so can_call() is
\* true, and a failure counts and opens the breaker at the threshold
C19_FailedSaveIsHarmless ==
    (lastOp \in {"record_success", "record_failure"} /\ ~ret.saved) =>
        /\ ~ret.raised
        /\ lastOp = "record_success" =>
              /\ cb.state = "closed"
              /\ cb.failure_count = 0
              /\ can_call(cb)
        /\ lastOp = "record_failure" =>
              /\ cb.failure_count = cbPrev.failure_count + 1
              /\ cb.last_failure = now
              /\ cb.state = IF cb.failure_count >= Threshold
                            THEN "open" ELSE cbPrev.state

C19_Witness ==
    /\ lastOp = "record_success"
    /\ ~ret.saved
    /\ cbPrev.state = "open"
    /\ cbFile.exists
    /\ cbFile.data.state = "open"
    /\ can_call(cb)

\* C20: with the feature disabled the score of every post is 0 and
\* should_use_web_search is false, whatever the post holds, and none of
\* its fields is scanned
C20_DisabledScoresNothing ==
    (/\ lastOp \in {"calculate_web_search_score", "should_use_web_search"}
     /\ ~config.enabled) =>
        /\ ret.value = 0
        /\ ~ret.ok
        /\ ret.scans = {}

C20_Witness ==
    /\ lastOp = "calculate_web_search_score"
    /\ ~config.enabled
    /\ calculate_web_search_score_of(ret.post, TRUE).score >= 80
    /\ ret.value = 0
    /\ ret.scans = {}


----------------------------------------------------------------------------
(* Scoring *)

\* the weight each of the six signals contributes for a post, in the
\* order subreddit, keywords, score, url, products, body
SignalWeights(post) ==
    <<IF post.in_target_subreddit THEN 20 ELSE 0,
      IF post.keywords_found >= 1 THEN 15 ELSE 0,
      IF post.score >= MinPostScore THEN 25 ELSE 0,
      IF post.url.host \in ExternalDomains THEN 20
      ELSE IF post.url.host /= "" /\ post.url.host \notin PlatformDomains
      THEN 10 ELSE 0,
      IF post.products_found >= 1 THEN 15 ELSE 0,
      IF post.body_len < 100 THEN 5 ELSE 0>>

\* every order in which the six signals can be evaluated
SignalOrders ==
    {f \in [1..6 -> 1..6] : \A i, j \in 1..6 : i /= j => f[i] /= f[j]}

RECURSIVE SumInOrder(_, _, _)
SumInOrder(weights, order, i) ==
    IF i > 6 THEN 0
    ELSE weights[order[i]] + SumInOrder(weights, order, i + 1)

\* C21: with the feature enabled the score of a post is the sum of the
\* weights of the signals it triggers (20 subreddit, 15 keywords counted
\* once, 25 score, 20 listed domain or else 10 other domain, 15 products,
\* 5 short body), in whatever order the signals are summed
C21_ScoreIsSumOfWeights ==
    (lastOp = "calculate_web_search_score" /\ config.enabled) =>
        \A order \in SignalOrders :
            ret.value = SumInOrder(SignalWeights(ret.post), order, 1)

C21_Witness ==
    /\ lastOp = "calculate_web_search_score"
    /\ config.enabled
    /\ ret.post.in_target_subreddit
    /\ ret.post.keywords_found = 2
    /\ ret.post.score >= MinPostScore
    /\ ret.post.url.host \in ExternalDomains
    /\ ret.post.products_found = 1
    /\ ret.post.body_len < 100
    /\ ret.value = 100

\* C22: a post of a target subreddit that links to a listed domain, has
\* a score below the minimum, matches no keyword and no product and has
\* a body of 100 characters or more is not selected
C22_LowEngagementNotSelected ==
    (/\ lastOp = "should_use_web_search"
     /\ config.enabled
     /\ ret.post.in_target_subreddit
     /\ ret.post.url.host \in ExternalDomains
     /\ ret.post.score < MinPostScore
     /\ ret.post.keywords_found = 0
     /\ ret.post.products_found = 0
     /\ ret.post.body_len >= 100) =>
        ~ret.ok

\* C24: the service behind the compatibility layer gives the score and
\* the decision that the legacy functions give for the same post under
\* the same configuration
C24_CompatKeepsLegacyDecision ==
    /\ lastOp = "calculate_web_search_score" =>
          ret.value =
              reddit_email_calculate_web_search_score(ret.post, config.enabled)
    /\ lastOp = "should_use_web_search" =>
          ret.ok = reddit_email_should_use_web_search(ret.post, config.enabled)


----------------------------------------------------------------------------
(* The breaker's record on file and the calls of the pipeline *)

\* C23: once the breaker has been moved from open to half-open, the
\* record on file holds half_open, so that another breaker loading the
\* file finds half_open and not open
C23_HalfOpenIsPersisted ==
    (lastOp = "restart" /\ cb.state = "half_open") =>
        /\ cbFile.exists
        /\ cbFile.data.state = "half_open"

\* C25: on one day and one tracker, the pipeline sends at most
\* daily_limit enrichment calls, whatever each call's outcome is
C25_IssuedWithinDailyLimit ==
    today = 0 => issued <= config.daily_limit

\* C27: every enrichment call that was sent is followed by exactly one
\* of record_success and record_failure, also when reading the response
\* raises
C27_OneBreakerOutcome ==
    (lastOp = "summarize" /\ ret.called) => Len(ret.breaker_calls) = 1


\* C26: an enrichment call is sent for a post only when the gate has
\* just allowed it on the records as they are: the feature is enabled,
\* the post qualifies, the tracker allows and the breaker is not open
C26_CalledOnlyWhenAllowed ==
    (lastOp = "summarize" /\ ret.called) =>
        /\ config.enabled
        /\ should_use_web_search(ret.post)
        /\ can_search(usagePrev, config.daily_limit, config.cost_limit_per_day)
        /\ can_call(cbPrev)
        /\ cbPrev.state /= "open"
        /\ ret.reason = AllowReason

C26_Witness ==
    /\ lastOp = "summarize"
    /\ ret.called
    /\ cbPrev.state = "half_open"
    /\ usagePrev.searches_count < config.daily_limit
    /\ ret.reason = AllowReason


\* C28: within one day the count and the cost of the tracker's record
\* never decrease, and once can_search() has returned False it returns
\* False at every later call of that day
C28_MonotoneWithinDay ==
    /\ (lastOp \notin {"init", "next_day"} /\ usagePrev.date = today) =>
          /\ usage.searches_count >= usagePrev.searches_count
          /\ usage.total_cost >= usagePrev.total_cost
    /\ (lastOp = "can_search" /\ denied) => ~ret.ok


\* C29: can_perform_search only reads: a call leaves the tracker's and
\* the breaker's records as they were, in memory and on file, and a call
\* that follows another one for the same post, with nothing recorded in
\* between, gives the same decision and the same reason
C29_GateIsPureQuery ==
    [][lastOp' = "can_perform_search" =>
          /\ UNCHANGED <<cb, cbFile, usage, usageFile>>
          /\ (lastOp = "can_perform_search" /\ ret'.post = ret.post) =>
                /\ ret'.ok = ret.ok
                /\ ret'.reason = ret.reason]_vars

C29_Witness ==
    /\ lastOp = "can_perform_search"
    /\ ret.repeat
    /\ ret.ok
    /\ cb = cbPrev
    /\ usage = usagePrev
    /\ usage.searches_count = 1
    /\ cbFile.exists


\* C30: when two trackers over the same usage file have recorded
\* searches in some order on one day, the count on file is the number of
\* searches the two of them recorded
C30_NoLostUpdate ==
    lastOp = "shared_record_search" =>
        /\ usageFile.exists
        /\ usageFile.content = "record"
        /\ usageFile.data.searches_count = recorded

====
